---- MODULE Spec2Model ----
(***************************************************************************)
(* Direct Grants API (src/server.js): the in-memory ledger (grants,        *)
(* grantors), the whitelist cache, and the handlers POST /grants and       *)
(* POST /test/e2e as interleaved request handlers that suspend at every    *)
(* await.                                                                  *)
(*                                                                         *)
(* Strings are tokens; toLowerCase is a table over the tokens in use.      *)
(* Amount strings are sequences of one-character strings so that parseETH  *)
(* is computed the way the code computes it.  Amounts are integers in base *)
(* units; one ether is 10^Decimals base units (ethers uses 18; the model   *)
(* scales it down because TLC integers are 32 bit).                        *)
(***************************************************************************)
EXTENDS Integers, Sequences, FiniteSets, TLC

\* ------------------------------------------------------------------------
\* Bounds
\* ------------------------------------------------------------------------
MaxReq == 2        \* number of requests the service receives
MaxTicks == 2      \* number of times the clock advances
Decimals == 2      \* decimals of one ether in base units (scaled)

\* ------------------------------------------------------------------------
\* Program constants
\* ------------------------------------------------------------------------
TREASURY_ADDRESS == "0xTreasury"
FEE_PERCENT == 5
WHITELIST_CACHE_TTL == 5 * 60 * 1000
TickMs == WHITELIST_CACHE_TTL \div 2      \* the clock advances half a TTL at a time

\* ------------------------------------------------------------------------
\* Values
\* ------------------------------------------------------------------------
Absent == "absent"            \* undefined / missing field
NonString == "#123"           \* a truthy JSON value that is not a string
Null == "null"

Requests == 1..MaxReq

\* String.prototype.toLowerCase on the tokens in use
toLowerCase(s) ==
  CASE s = "0xAA" -> "0xaa"
    [] s = "0xTreasury" -> "0xtreasury"
    [] s = "0xW1" -> "0xw1"
    [] s = "0xR1" -> "0xr1"
    [] s = "0xG1" -> "0xg1"
    [] s = "0xG2" -> "0xg2"
    [] s = "0xOther" -> "0xother"
    [] OTHER -> s

\* ethers.isAddress
isAddress(s) ==
  s \in {"0xR1", "0xr1", "0xW1", "0xw1", "0xG1", "0xg1", "0xG2", "0xg2",
         "0xTreasury", "0xtreasury", "0xOther", "0xother"}

\* a value on which .toLowerCase() can be called
IsString(s) == s \notin {Absent, NonString, Null}

\* ------------------------------------------------------------------------
\* parseETH / ethers.parseEther
\* ------------------------------------------------------------------------
Digits == {"0", "1", "2", "3", "4", "5", "6", "7", "8", "9"}
DigitVal(c) ==
  CASE c = "0" -> 0 [] c = "1" -> 1 [] c = "2" -> 2 [] c = "3" -> 3
    [] c = "4" -> 4 [] c = "5" -> 5 [] c = "6" -> 6 [] c = "7" -> 7
    [] c = "8" -> 8 [] c = "9" -> 9

RECURSIVE Pow10(_)
Pow10(n) == IF n = 0 THEN 1 ELSE 10 * Pow10(n - 1)

RECURSIVE DigitsToNat(_)
DigitsToNat(s) ==
  IF s = <<>> THEN 0
  ELSE 10 * DigitsToNat(SubSeq(s, 1, Len(s) - 1)) + DigitVal(s[Len(s)])

EthSuffix == <<" ", "E", "T", "H">>

\* String.prototype.replace(' ETH', ''): removes the first occurrence
StripETH(s) ==
  LET occ == {i \in 1..Len(s) : i + 3 <= Len(s) /\ SubSeq(s, i, i + 3) = EthSuffix}
  IN IF occ = {} THEN s
     ELSE LET i == CHOOSE j \in occ : \A k \in occ : j <= k
          IN SubSeq(s, 1, i - 1) \o SubSeq(s, i + 4, Len(s))

RECURSIVE Trim(_)
Trim(s) ==
  IF s = <<>> THEN s
  ELSE IF s[1] = " " THEN Trim(Tail(s))
  ELSE IF s[Len(s)] = " " THEN Trim(SubSeq(s, 1, Len(s) - 1))
  ELSE s

\* ethers.parseEther: /^(-?)([0-9]*)\.?([0-9]*)$/ with at least one digit and
\* no non-zero digit beyond the unit's decimals; [ok |-> FALSE] is a throw
parseEther(s) ==
  LET neg == s # <<>> /\ s[1] = "-"
      body == IF neg THEN Tail(s) ELSE s
      dots == {i \in 1..Len(body) : body[i] = "."}
      dot == IF dots = {} THEN Len(body) + 1 ELSE CHOOSE i \in dots : \A k \in dots : i <= k
      whole == SubSeq(body, 1, dot - 1)
      frac == SubSeq(body, dot + 1, Len(body))
      wellFormed == /\ \A i \in 1..Len(whole) : whole[i] \in Digits
                    /\ \A i \in 1..Len(frac) : frac[i] \in Digits
                    /\ Len(whole) + Len(frac) > 0
                    /\ \A i \in 1..Len(frac) : i > Decimals => frac[i] = "0"
      fracKept == SubSeq(frac, 1, IF Len(frac) < Decimals THEN Len(frac) ELSE Decimals)
      mag == DigitsToNat(whole) * Pow10(Decimals)
             + DigitsToNat(fracKept) * Pow10(Decimals - Len(fracKept))
  IN IF wellFormed THEN [ok |-> TRUE, val |-> IF neg THEN 0 - mag ELSE mag]
     ELSE [ok |-> FALSE, val |-> 0]

parseETH(ethString) == parseEther(Trim(StripETH(ethString)))

\* BigInt division truncates toward zero
BigIntDiv(a, b) == IF a >= 0 THEN a \div b ELSE 0 - ((0 - a) \div b)

Fee(fundingAmount) == BigIntDiv(fundingAmount * FEE_PERCENT, 100)

\* ------------------------------------------------------------------------
\* The chain provider (external): what a lookup of a hash can return
\* ------------------------------------------------------------------------
NoTx == [found |-> FALSE, to |-> Null, from |-> Null, value |-> 0]

\* the transaction the chain holds for a hash (hex, case-insensitive)
ChainTx(h) ==
  CASE toLowerCase(h) = "0xaa" ->
         [found |-> TRUE, to |-> "0xtreasury", from |-> "0xG1", value |-> 101]
    [] toLowerCase(h) = "0xbb" ->
         [found |-> TRUE, to |-> "0xOther", from |-> "0xG1", value |-> 40]
    [] OTHER -> NoTx

\* getTransaction(hash): the transaction, or null while the node has not seen it
GetTransactionResults(h) == {ChainTx(h), NoTx}

\* getTransactionReceipt(hash).status, "null" for no receipt
ReceiptResults == {"1", "0", "null"}

\* the body of GET https://www.owockibot.xyz/api/whitelist
WhitelistData == {"0xW1"}

\* ------------------------------------------------------------------------
\* Request inputs
\* ------------------------------------------------------------------------
AddressInputs == {"0xW1", "0xg2", Absent}
RecipientInputs == {"0xR1", "bob", Absent}
TxHashInputs == {"0xaa", "0xAA", "0xbb", Absent, NonString}
GrantorInputs == {Absent, "0xG2", NonString}
AmountInputs == { <<>>,
                  <<"0", ".", "0", "7">>,
                  <<"-", "0", ".", "0", "7">>,
                  <<"1", " ", "E", "T", "H">>,
                  <<"x">> }

\* ------------------------------------------------------------------------
\* State
\* ------------------------------------------------------------------------
VARIABLES
  grants,               \* the Map grants, in insertion order
  grantors,             \* the Map grantors: address -> stats
  whitelistCache,       \* _whitelistCache: [present, set]
  whitelistCacheTime,   \* _whitelistCacheTime
  now,                  \* Date.now()
  walletConfigured,     \* TREASURY_PRIVATE_KEY is set
  req                   \* the request handlers: inputs, position, locals, response

vars == <<grants, grantors, whitelistCache, whitelistCacheTime, now, walletConfigured, req>>

IdleReq ==
  [pc |-> "idle", endpoint |-> "-", mock |-> FALSE, address |-> Absent,
   recipient |-> Absent, txHash |-> Absent, amount |-> <<>>, grantor |-> Absent,
   wl |-> {}, fetchNow |-> 0, fetchCalled |-> FALSE, passedGate |-> FALSE,
   tx |-> NoTx, receipt |-> "-", fundingAmount |-> 0, netAmount |-> 0,
   sendCalled |-> FALSE, sendOk |-> FALSE,
   status |-> 0, error |-> "-", grantId |-> 0]

Init ==
  /\ grants = <<>>
  /\ grantors = << >>
  /\ whitelistCache = [present |-> FALSE, set |-> {}]
  /\ whitelistCacheTime = 0
  /\ now = 0
  /\ walletConfigured \in BOOLEAN
  /\ req = [r \in Requests |-> IdleReq]

\* ------------------------------------------------------------------------
\* Ledger helpers
\* ------------------------------------------------------------------------
\* the duplicate lookup comparing the hashes as written (no toLowerCase)
FindByFundingTx_CaseSensitive(gs, txHash) ==
  LET hits == {i \in 1..Len(gs) : gs[i].fundingTxHash = txHash}
  IN IF hits = {} THEN 0 ELSE CHOOSE i \in hits : \A k \in hits : i <= k

\* the duplicate lookup passing over the records made in mock mode
FindByFundingTx_SkipsMock(gs, txHash) ==
  LET hits == {i \in 1..Len(gs) : /\ ~gs[i].mock
                                  /\ toLowerCase(gs[i].fundingTxHash) = toLowerCase(txHash)}
  IN IF hits = {} THEN 0 ELSE CHOOSE i \in hits : \A k \in hits : i <= k

\* Array.from(grants.values()).find(g => g.fundingTxHash?.toLowerCase() === txHash.toLowerCase())
\* as the index of the first match, 0 for undefined
FindByFundingTx(gs, txHash) ==
  LET hits == {i \in 1..Len(gs) : toLowerCase(gs[i].fundingTxHash) = toLowerCase(txHash)}
  IN IF hits = {} THEN 0 ELSE CHOOSE i \in hits : \A k \in hits : i <= k

\* the find callback throws a TypeError: it calls toLowerCase on a stored
\* fundingTxHash or on txHash that is no string, at a record reached before
\* any match
FindThrows(gs, txHash) ==
  \E i \in 1..Len(gs) :
    /\ ~IsString(gs[i].fundingTxHash) \/ ~IsString(txHash)
    /\ \A j \in 1..(i - 1) :
         ~(/\ IsString(gs[j].fundingTxHash) /\ IsString(txHash)
           /\ toLowerCase(gs[j].fundingTxHash) = toLowerCase(txHash))

\* the grant object literal
GrantRecord(id, recipient, grantor, fundingAmount, fee, netAmount, txHash, dist, isMock, t) ==
  [id |-> id, recipient |-> toLowerCase(recipient), grantor |-> toLowerCase(grantor),
   grossAmount |-> fundingAmount, fee |-> fee, netAmount |-> netAmount,
   fundingTxHash |-> txHash, distributionTxHash |-> dist,
   status |-> "completed", mock |-> isMock, createdAt |-> t]

\* grantors.has / set / stats.totalGrants++ / stats.totalAmount += fundingAmount
TrackGrantor(gm, addr, fundingAmount) ==
  IF addr \in DOMAIN gm
  THEN [gm EXCEPT ![addr] = [totalGrants |-> @.totalGrants + 1,
                             totalAmount |-> @.totalAmount + fundingAmount]]
  ELSE gm @@ (addr :> [totalGrants |-> 1, totalAmount |-> fundingAmount])

\* res.status(code).json(...) and return: the handler's locals are dropped,
\* what the request did and what it answered is kept
Respond(rq, code, err, gid) ==
  [IdleReq EXCEPT !.pc = "done", !.endpoint = rq.endpoint, !.mock = rq.mock,
                  !.recipient = rq.recipient,
                  !.txHash = rq.txHash, !.passedGate = rq.passedGate,
                  !.tx = rq.tx, !.receipt = rq.receipt,
                  !.sendCalled = rq.sendCalled, !.sendOk = rq.sendOk,
                  !.status = code, !.error = err, !.grantId = gid]

\* the async handler's promise rejects outside its try: no code of this file
\* sends a response
Unhandled(rq) ==
  [Respond(rq, 0, "TypeError: toLowerCase is not a function", 0) EXCEPT !.pc = "unhandled"]

\* ------------------------------------------------------------------------
\* The clock
\* ------------------------------------------------------------------------
Tick ==
  /\ now < MaxTicks * TickMs
  /\ now' = now + TickMs
  /\ UNCHANGED <<grants, grantors, whitelistCache, whitelistCacheTime, walletConfigured, req>>

\* ------------------------------------------------------------------------
\* requireWhitelist / fetchWhitelist
\* ------------------------------------------------------------------------
\* the cache test counting an age equal to the TTL as fresh
CacheFresh_Inclusive(t) ==
  whitelistCache.present /\ (t - whitelistCacheTime) <= WHITELIST_CACHE_TTL

\* the cache test at the head of fetchWhitelist
CacheFresh(t) ==
  whitelistCache.present /\ (t - whitelistCacheTime) < WHITELIST_CACHE_TTL

\* a request is received only after the ones numbered before it
CanReceive(r) == req[r].pc = "idle" /\ (IF r = 1 THEN TRUE ELSE req[r - 1].pc # "idle")

\* POST /grants arrives: requireWhitelist up to `await fetchWhitelist()`, and
\* fetchWhitelist up to its return or its `await fetch(...)`
PostGrants(r) ==
  /\ CanReceive(r)
  /\ \E address \in AddressInputs :
       LET rq == [req[r] EXCEPT !.endpoint = "grants", !.address = address]
       IN req' = [req EXCEPT ![r] =
                    IF address = Absent
                    THEN Respond(rq, 400, "Address required", 0)
                    ELSE IF CacheFresh(now)
                    THEN [rq EXCEPT !.pc = "gateResume", !.wl = whitelistCache.set]
                    ELSE [rq EXCEPT !.pc = "fetching", !.fetchNow = now, !.fetchCalled = TRUE]]
  /\ UNCHANGED <<grants, grantors, whitelistCache, whitelistCacheTime, now, walletConfigured>>

\* fetch and res.json() succeed: the cache and its time are replaced
FetchOk(r) ==
  /\ req[r].pc = "fetching"
  /\ LET set == {toLowerCase(a) : a \in WhitelistData}
     IN /\ whitelistCache' = [present |-> TRUE, set |-> set]
        /\ whitelistCacheTime' = req[r].fetchNow
        /\ req' = [req EXCEPT ![r] = [@ EXCEPT !.pc = "gateResume", !.wl = set]]
  /\ UNCHANGED <<grants, grantors, now, walletConfigured>>

\* the failed fetch letting the caller through when there is no cache
FetchFail_FailOpen(r) ==
  /\ req[r].pc = "fetching"
  /\ req' = [req EXCEPT ![r] =
               [@ EXCEPT !.pc = "gateResume",
                         !.wl = IF whitelistCache.present THEN whitelistCache.set
                                ELSE {toLowerCase(req[r].address)}]]
  /\ UNCHANGED <<grants, grantors, whitelistCache, whitelistCacheTime, now, walletConfigured>>

\* fetch or res.json() throws: the previous cache, else an empty set
FetchFail(r) ==
  /\ req[r].pc = "fetching"
  /\ req' = [req EXCEPT ![r] =
               [@ EXCEPT !.pc = "gateResume",
                         !.wl = IF whitelistCache.present THEN whitelistCache.set ELSE {}]]
  /\ UNCHANGED <<grants, grantors, whitelistCache, whitelistCacheTime, now, walletConfigured>>

\* ------------------------------------------------------------------------
\* POST /grants
\* ------------------------------------------------------------------------
\* lines 202-238: build the grant, insert it, track the grantor, respond 201;
\* (grantor || txFrom).toLowerCase() throws on a non-string into the catch
RecordGrant(r, rq, fundingAmount, txFrom, dist) ==
  LET g == IF rq.grantor # Absent THEN rq.grantor ELSE txFrom
      fee == Fee(fundingAmount)
      grant == GrantRecord(r, rq.recipient, g, fundingAmount, fee, fundingAmount - fee,
                           rq.txHash, dist, rq.mock, now)
  IN IF ~IsString(g)
     THEN /\ req' = [req EXCEPT ![r] = Respond(rq, 500, "toLowerCase is not a function", 0)]
          /\ UNCHANGED <<grants, grantors>>
     ELSE /\ grants' = Append(grants, grant)
          /\ grantors' = TrackGrantor(grantors, grant.grantor, fundingAmount)
          /\ req' = [req EXCEPT ![r] = Respond(rq, 201, "-", r)]

\* the handler verifying the funding transaction in mock mode too
GrantsBody_AlwaysVerifies(r, rq) ==
  LET dup == FindByFundingTx(grants, rq.txHash)
  IN /\ req' = [req EXCEPT ![r] =
                  IF rq.recipient = Absent \/ rq.txHash = Absent
                  THEN Respond(rq, 400, "recipient and txHash required", 0)
                  ELSE IF ~isAddress(rq.recipient)
                  THEN Respond(rq, 400, "Invalid recipient address", 0)
                  ELSE IF dup # 0
                  THEN Respond(rq, 400, "Transaction already used for grant", grants[dup].id)
                  ELSE [rq EXCEPT !.pc = "getTx"]]
     /\ UNCHANGED <<grants, grantors>>

\* the handler looking for a duplicate before it validates the recipient
GrantsBody_DuplicateFirst(r, rq) ==
  LET dup == FindByFundingTx(grants, rq.txHash)
  IN /\ req' = [req EXCEPT ![r] =
                  IF rq.recipient = Absent \/ rq.txHash = Absent
                  THEN Respond(rq, 400, "recipient and txHash required", 0)
                  ELSE IF dup # 0
                  THEN Respond(rq, 400, "Transaction already used for grant", grants[dup].id)
                  ELSE IF ~isAddress(rq.recipient)
                  THEN Respond(rq, 400, "Invalid recipient address", 0)
                  ELSE IF ~rq.mock
                  THEN [rq EXCEPT !.pc = "getTx"]
                  ELSE Respond(rq, 500, "mock mode unavailable", 0)]
     /\ UNCHANGED <<grants, grantors>>

\* the handler of POST /grants from line 120 up to its first await (live) or
\* to its response (mock)
GrantsBody(r, rq) ==
  LET dup == FindByFundingTx(grants, rq.txHash)
      parsed == IF rq.amount # <<>> THEN parseETH(rq.amount)
                ELSE parseEther(<<"0", ".", "0", "1">>)
  IN IF rq.recipient = Absent \/ rq.txHash = Absent
     THEN /\ req' = [req EXCEPT ![r] = Respond(rq, 400, "recipient and txHash required", 0)]
          /\ UNCHANGED <<grants, grantors>>
     ELSE IF ~isAddress(rq.recipient)
     THEN /\ req' = [req EXCEPT ![r] = Respond(rq, 400, "Invalid recipient address", 0)]
          /\ UNCHANGED <<grants, grantors>>
     ELSE IF FindThrows(grants, rq.txHash)
     THEN \* line 144 is outside the try: the framework's error handling, if it
          \* has any for a rejected handler, answers 500; else nothing answers
          /\ \/ req' = [req EXCEPT ![r] = Respond(rq, 500, "toLowerCase is not a function", 0)]
             \/ req' = [req EXCEPT ![r] = Unhandled(rq)]
          /\ UNCHANGED <<grants, grantors>>
     ELSE IF dup # 0
     THEN /\ req' = [req EXCEPT ![r] =
                       Respond(rq, 400, "Transaction already used for grant", grants[dup].id)]
          /\ UNCHANGED <<grants, grantors>>
     ELSE IF ~rq.mock
     THEN /\ req' = [req EXCEPT ![r] = [rq EXCEPT !.pc = "getTx"]]
          /\ UNCHANGED <<grants, grantors>>
     ELSE IF ~parsed.ok
     THEN /\ req' = [req EXCEPT ![r] = Respond(rq, 500, "invalid FixedNumber string value", 0)]
          /\ UNCHANGED <<grants, grantors>>
     ELSE RecordGrant(r, [rq EXCEPT !.fundingAmount = parsed.val,
                                    !.netAmount = parsed.val - Fee(parsed.val)],
                      parsed.val,
                      IF rq.grantor # Absent THEN rq.grantor ELSE "0x1111",
                      <<"0xmock", r>>)

\* `await fetchWhitelist()` resumes: the gate's verdict, then next() runs the
\* handler, which reads the rest of the request
GrantsHandler(r) ==
  /\ req[r].pc = "gateResume"
  /\ IF toLowerCase(req[r].address) \notin req[r].wl
     THEN /\ req' = [req EXCEPT ![r] = Respond(@, 403, "Invite-only", 0)]
          /\ UNCHANGED <<grants, grantors>>
     ELSE \E recipient \in RecipientInputs, txHash \in TxHashInputs,
             grantor \in GrantorInputs, isMock \in BOOLEAN, amount \in AmountInputs :
            /\ (~isMock => amount = <<>>)      \* amount is read in mock mode only
            /\ GrantsBody(r, [req[r] EXCEPT !.passedGate = TRUE, !.mock = isMock,
                                            !.recipient = recipient, !.txHash = txHash,
                                            !.grantor = grantor, !.amount = amount])
  /\ UNCHANGED <<whitelistCache, whitelistCacheTime, now, walletConfigured>>

\* the receipt test accepting any receipt, whatever its status
ReceiptConfirmed_AnyStatus(rc) == rc # "null"

\* !receipt || receipt.status !== 1 is false
ReceiptConfirmed(rc) == rc = "1"

\* tx.to?.toLowerCase() !== TREASURY_ADDRESS.toLowerCase() is false
SentToTreasury(tx) == toLowerCase(tx.to) = toLowerCase(TREASURY_ADDRESS)

\* await getProvider().getTransaction(txHash) returns or throws
GrantsGetTransaction(r) ==
  /\ req[r].pc = "getTx"
  /\ \/ req' = [req EXCEPT ![r] = Respond(@, 500, "getTransaction failed", 0)]
     \/ \E tx \in GetTransactionResults(req[r].txHash) :
          /\ IsString(req[r].txHash)      \* the provider throws on a hash that is no string
          /\ req' = [req EXCEPT ![r] =
                    IF ~tx.found THEN Respond(@, 400, "Transaction not found", 0)
                    ELSE [@ EXCEPT !.pc = "getReceipt", !.tx = tx]]
  /\ UNCHANGED <<grants, grantors, whitelistCache, whitelistCacheTime, now, walletConfigured>>

\* await getTransactionReceipt returns or throws; destination check; fee;
\* getWallet; the call of sendTransaction
GrantsGetReceipt(r) ==
  /\ req[r].pc = "getReceipt"
  /\ \/ req' = [req EXCEPT ![r] = Respond(@, 500, "getTransactionReceipt failed", 0)]
     \/ \E rc \in ReceiptResults :
          LET rq == [req[r] EXCEPT !.receipt = rc]
              fundingAmount == rq.tx.value
          IN req' = [req EXCEPT ![r] =
                IF ~ReceiptConfirmed(rc) THEN Respond(rq, 400, "Transaction failed or pending", 0)
                ELSE IF ~SentToTreasury(rq.tx)
                THEN Respond(rq, 400, "Not sent to treasury", 0)
                ELSE IF ~walletConfigured
                THEN Respond([rq EXCEPT !.fundingAmount = fundingAmount,
                                        !.netAmount = fundingAmount - Fee(fundingAmount)],
                             500, "Wallet not configured", 0)
                ELSE [rq EXCEPT !.pc = "send", !.sendCalled = TRUE,
                                !.fundingAmount = fundingAmount,
                                !.netAmount = fundingAmount - Fee(fundingAmount)]]
  /\ UNCHANGED <<grants, grantors, whitelistCache, whitelistCacheTime, now, walletConfigured>>

\* the handler storing its record before the outcome of sendTransaction is
\* known: a throw leaves the record in the ledger
GrantsSend_RecordBeforeOutcome(r) ==
  /\ req[r].pc = "send"
  /\ LET rq == req[r]
         fee == Fee(rq.fundingAmount)
         grant == GrantRecord(r, rq.recipient, rq.tx.from, rq.fundingAmount, fee,
                              rq.fundingAmount - fee, rq.txHash, <<"0xdist", r>>,
                              FALSE, now)
     IN /\ grants' = Append(grants, grant)
        /\ grantors' = TrackGrantor(grantors, grant.grantor, rq.fundingAmount)
        /\ \/ req' = [req EXCEPT ![r] = Respond(rq, 500, "sendTransaction failed", 0)]
           \/ req' = [req EXCEPT ![r] = Respond([rq EXCEPT !.sendOk = TRUE], 201, "-", r)]
  /\ UNCHANGED <<whitelistCache, whitelistCacheTime, now, walletConfigured>>

\* await w.sendTransaction({to: recipient, value: netAmount}) returns or throws
GrantsSend(r) ==
  /\ req[r].pc = "send"
  /\ \/ /\ req' = [req EXCEPT ![r] = Respond(@, 500, "sendTransaction failed", 0)]
        /\ UNCHANGED <<grants, grantors>>
     \/ RecordGrant(r, [req[r] EXCEPT !.sendOk = TRUE], req[r].fundingAmount,
                    req[r].tx.from, <<"0xdist", r>>)
  /\ UNCHANGED <<whitelistCache, whitelistCacheTime, now, walletConfigured>>

\* ------------------------------------------------------------------------
\* POST /test/e2e
\* ------------------------------------------------------------------------
\* recipient || TREASURY_ADDRESS
TargetRecipient(rq) == IF rq.recipient # Absent THEN rq.recipient ELSE TREASURY_ADDRESS

\* POST /test/e2e arrives (no middleware): up to `await getTransaction`
PostE2e(r) ==
  /\ CanReceive(r)
  /\ \E recipient \in RecipientInputs, txHash \in TxHashInputs :
       LET rq == [req[r] EXCEPT !.endpoint = "e2e", !.recipient = recipient,
                                !.txHash = txHash]
       IN req' = [req EXCEPT ![r] =
                    IF txHash = Absent THEN Respond(rq, 400, "txHash required", 0)
                    ELSE [rq EXCEPT !.pc = "e2eGetTx"]]
  /\ UNCHANGED <<grants, grantors, whitelistCache, whitelistCacheTime, now, walletConfigured>>

E2eGetTransaction(r) ==
  /\ req[r].pc = "e2eGetTx"
  /\ \/ req' = [req EXCEPT ![r] = Respond(@, 500, "getTransaction failed", 0)]
     \/ \E tx \in GetTransactionResults(req[r].txHash) :
          /\ IsString(req[r].txHash)      \* the provider throws on a hash that is no string
          /\ req' = [req EXCEPT ![r] =
                    IF ~tx.found THEN Respond(@, 400, "Transaction not found", 0)
                    ELSE [@ EXCEPT !.pc = "e2eGetReceipt", !.tx = tx]]
  /\ UNCHANGED <<grants, grantors, whitelistCache, whitelistCacheTime, now, walletConfigured>>

E2eGetReceipt(r) ==
  /\ req[r].pc = "e2eGetReceipt"
  /\ \/ req' = [req EXCEPT ![r] = Respond(@, 500, "getTransactionReceipt failed", 0)]
     \/ \E rc \in ReceiptResults :
          LET rq == [req[r] EXCEPT !.receipt = rc]
              fundingAmount == rq.tx.value
          IN req' = [req EXCEPT ![r] =
                IF ~ReceiptConfirmed(rc) THEN Respond(rq, 400, "Transaction failed or pending", 0)
                ELSE IF ~SentToTreasury(rq.tx)
                THEN Respond(rq, 400, "Not sent to treasury", 0)
                ELSE IF ~walletConfigured
                THEN Respond([rq EXCEPT !.fundingAmount = fundingAmount,
                                        !.netAmount = fundingAmount - Fee(fundingAmount)],
                             500, "Wallet not configured", 0)
                ELSE [rq EXCEPT !.pc = "e2eSend", !.sendCalled = TRUE,
                                !.fundingAmount = fundingAmount,
                                !.netAmount = fundingAmount - Fee(fundingAmount)]]
  /\ UNCHANGED <<grants, grantors, whitelistCache, whitelistCacheTime, now, walletConfigured>>

\* sendTransaction returns or throws (it throws on a `to` that is no address);
\* then lines 368-385: the record is inserted, grantors is not touched
E2eSend(r) ==
  /\ req[r].pc = "e2eSend"
  /\ LET rq == req[r]
         to == TargetRecipient(rq)
         fee == Fee(rq.fundingAmount)
         grant == GrantRecord(r, to, rq.tx.from, rq.fundingAmount, fee,
                              rq.fundingAmount - fee, rq.txHash, <<"0xdist", r>>,
                              FALSE, now)
     IN \/ /\ req' = [req EXCEPT ![r] = Respond(rq, 500, "sendTransaction failed", 0)]
           /\ UNCHANGED grants
        \/ /\ isAddress(to)
           /\ grants' = Append(grants, grant)
           /\ req' = [req EXCEPT ![r] = Respond([rq EXCEPT !.sendOk = TRUE], 200, "-", r)]
  /\ UNCHANGED <<grantors, whitelistCache, whitelistCacheTime, now, walletConfigured>>

\* ------------------------------------------------------------------------
\* Specification
\* ------------------------------------------------------------------------
Next ==
  \/ Tick
  \/ \E r \in Requests : PostGrants(r)
  \/ \E r \in Requests : FetchOk(r)
  \/ \E r \in Requests : FetchFail(r)
  \/ \E r \in Requests : GrantsHandler(r)
  \/ \E r \in Requests : GrantsGetTransaction(r)
  \/ \E r \in Requests : GrantsGetReceipt(r)
  \/ \E r \in Requests : GrantsSend(r)
  \/ \E r \in Requests : PostE2e(r)
  \/ \E r \in Requests : E2eGetTransaction(r)
  \/ \E r \in Requests : E2eGetReceipt(r)
  \/ \E r \in Requests : E2eSend(r)

Spec == Init /\ [][Next]_vars

\* The same service when its clients send one request at a time: a request
\* arrives only when no other request is being handled
Serial == \A q \in Requests : req[q].pc \in {"idle", "done", "unhandled"}

NextSeq ==
  \/ Tick
  \/ \E r \in Requests : Serial /\ PostGrants(r)
  \/ \E r \in Requests : FetchOk(r)
  \/ \E r \in Requests : FetchFail(r)
  \/ \E r \in Requests : GrantsHandler(r)
  \/ \E r \in Requests : GrantsGetTransaction(r)
  \/ \E r \in Requests : GrantsGetReceipt(r)
  \/ \E r \in Requests : GrantsSend(r)
  \/ \E r \in Requests : Serial /\ PostE2e(r)
  \/ \E r \in Requests : E2eGetTransaction(r)
  \/ \E r \in Requests : E2eGetReceipt(r)
  \/ \E r \in Requests : E2eSend(r)

SpecSeq == Init /\ [][NextSeq]_vars

\* ------------------------------------------------------------------------
\* Properties
\* ------------------------------------------------------------------------
\* the indices of the records funded by hash h, compared case-insensitively
RecordsOf(h) == {i \in 1..Len(grants) : toLowerCase(grants[i].fundingTxHash) = toLowerCase(h)}

\* the indices of the records a request created
RecordsBy(r) == {i \in 1..Len(grants) : grants[i].id = r}

SameHash(r1, r2) ==
  /\ req[r1].txHash # Absent
  /\ toLowerCase(req[r1].txHash) = toLowerCase(req[r2].txHash)

LiveGrants(r) == req[r].endpoint = "grants" /\ ~req[r].mock /\ req[r].passedGate

\* C1: no two stored grant records have the same fundingTxHash, compared
\* case-insensitively, in any reachable state of the ledger.
C1_UniqueFundingTxHash ==
  \A i, j \in 1..Len(grants) :
    i # j => toLowerCase(grants[i].fundingTxHash) # toLowerCase(grants[j].fundingTxHash)

C3_OverlappingSameHashOneDistribution ==
  \A r1, r2 \in Requests :
    (r1 # r2 /\ LiveGrants(r1) /\ LiveGrants(r2) /\ SameHash(r1, r2) /\ req[r1].pc = "send")
    => ~(req[r2].pc = "send" \/ req[r2].status = 201)

\* the failures of funding verification and of distribution
VerificationOrDistributionErrors ==
  {"getTransaction failed", "Transaction not found", "getTransactionReceipt failed",
   "Transaction failed or pending", "Not sent to treasury", "Wallet not configured",
   "sendTransaction failed"}

\* C4: a POST /grants request that fails in funding verification or in
\* distribution writes nothing: the step that ends it leaves grants and
\* grantors as they were, no record of it is in the ledger, and its hash is
\* still unused unless another request stored it.
C4_FailedRequestWritesNothing ==
  [][\A r \in Requests :
       (/\ req[r].pc # "done" /\ req'[r].pc = "done"
        /\ req'[r].endpoint = "grants"
        /\ req'[r].error \in VerificationOrDistributionErrors)
       => /\ grants' = grants
          /\ grantors' = grantors
          /\ RecordsBy(r) = {}
          /\ \A i \in RecordsOf(req'[r].txHash) : grants[i].id # r]_vars

\* C4 witness: a request failed in distribution and a later request with the
\* same hash was accepted and stored
C4_Witness ==
  \E r1, r2 \in Requests :
    /\ r1 < r2
    /\ req[r1].endpoint = "grants" /\ req[r1].error = "sendTransaction failed"
    /\ req[r2].endpoint = "grants" /\ req[r2].status = 201 /\ ~req[r2].mock
    /\ SameHash(r1, r2)
    /\ RecordsBy(r1) = {} /\ RecordsBy(r2) # {}

\* C5: every live record was inserted by a request that had, before the
\* insert, received the transaction, a receipt with status 1, a destination
\* equal to the treasury, and a successful sendTransaction of netAmount; a
\* request stores at most one record, only when it completes, always with
\* status completed.
C5_RecordOnlyAfterVerifyAndDistribute ==
  /\ \A i \in 1..Len(grants) :
       LET g == grants[i]
           rq == req[g.id]
       IN /\ g.status = "completed"
          /\ rq.pc = "done" /\ rq.status \in {200, 201}
          /\ ~g.mock =>
               /\ rq.tx.found /\ rq.tx = ChainTx(g.fundingTxHash)
               /\ rq.receipt = "1"
               /\ toLowerCase(rq.tx.to) = toLowerCase(TREASURY_ADDRESS)
               /\ rq.sendCalled /\ rq.sendOk
               /\ g.grossAmount = rq.tx.value
               /\ g.distributionTxHash = <<"0xdist", g.id>>
  /\ \A r \in Requests : Cardinality(RecordsBy(r)) <= 1

\* C5 witness: a live POST /grants record is in the ledger
C5_Witness ==
  \E i \in 1..Len(grants) :
    /\ ~grants[i].mock
    /\ req[grants[i].id].endpoint = "grants"
    /\ req[grants[i].id].receipt = "1"

\* C6: once sendTransaction has returned successfully in a live POST /grants
\* request, the request ends with 201 and its record, carrying the
\* distribution hash and the fundingTxHash, is in the ledger.
C6_NoFailureAfterDistribution ==
  \A r \in Requests :
    (req[r].endpoint = "grants" /\ ~req[r].mock /\ req[r].sendOk /\ req[r].pc = "done")
    => /\ req[r].status = 201
       /\ \E i \in RecordsBy(r) :
            /\ grants[i].distributionTxHash = <<"0xdist", r>>
            /\ grants[i].fundingTxHash = req[r].txHash

\* C7: every request that called sendTransaction or stored a record had
\* passed the whitelist gate.
C7_MutationsPassedGate ==
  \A r \in Requests : (req[r].sendCalled \/ RecordsBy(r) # {}) => req[r].passedGate

\* floor(a / b) for b > 0
Floor(a, b) == a \div b

\* C8: every stored record has fee + netAmount = grossAmount and
\* fee = floor(grossAmount * 5 / 100).
C8_FeeSplit ==
  \A i \in 1..Len(grants) :
    /\ grants[i].fee + grants[i].netAmount = grants[i].grossAmount
    /\ grants[i].fee = Floor(grants[i].grossAmount * 5, 100)

\* C9: in every stored record 0 <= fee <= grossAmount and netAmount >= 0.
C9_FeeWithinGross ==
  \A i \in 1..Len(grants) :
    /\ 0 <= grants[i].fee
    /\ grants[i].fee <= grants[i].grossAmount
    /\ grants[i].netAmount >= 0

RECURSIVE SumGross(_)
SumGross(S) ==
  IF S = {} THEN 0
  ELSE LET i == CHOOSE j \in S : TRUE IN grants[i].grossAmount + SumGross(S \ {i})

RecordsOfGrantor(a) == {i \in 1..Len(grants) : grants[i].grantor = a}

\* C10: for every address, totalGrants is the number of stored records of
\* that grantor and totalAmount the sum of their grossAmount (0 and 0 for an
\* address without a stats entry).
C10_StatsMatchRecords ==
  \A a \in DOMAIN grantors \cup {grants[i].grantor : i \in 1..Len(grants)} :
    LET st == IF a \in DOMAIN grantors THEN grantors[a]
              ELSE [totalGrants |-> 0, totalAmount |-> 0]
    IN /\ st.totalGrants = Cardinality(RecordsOfGrantor(a))
       /\ st.totalAmount = SumGross(RecordsOfGrantor(a))

\* ------------------------------------------------------------------------
\* GET /stats
\* ------------------------------------------------------------------------
\* uniqueGrantors: grantors.size
StatsUniqueGrantors == Cardinality(DOMAIN grantors)

\* uniqueRecipients: new Set(allGrants.map(g => g.recipient)).size
StatsUniqueRecipients == Cardinality({grants[i].recipient : i \in 1..Len(grants)})

\* C11: GET /stats reports uniqueGrantors equal to the number of distinct
\* grantor addresses among the stored grant records.
C11_UniqueGrantorsMatchesRecords ==
  StatsUniqueGrantors = Cardinality({grants[i].grantor : i \in 1..Len(grants)})

\* POST /grants in live mode would take this request past its validation and
\* its duplicate check (lines 123-147) on the present ledger
GrantsWouldProceed(recipient, txHash) ==
  /\ recipient # Absent /\ txHash # Absent
  /\ isAddress(recipient)
  /\ FindByFundingTx(grants, txHash) = 0

\* C12: POST /test/e2e applies the core logic of live POST /grants: on the
\* same txHash, recipient and prior ledger it goes on to the chain lookups
\* exactly when POST /grants would (a used fundingTxHash and a malformed
\* recipient are rejected before any transfer), and when it stores a record
\* it leaves grants and the grantor stats as POST /grants would.
C12_E2eSameAsLiveGrants ==
  [][\A r \in Requests :
       /\ (req[r].pc = "idle" /\ req'[r].endpoint = "e2e")
          => ((req'[r].pc = "e2eGetTx")
                <=> GrantsWouldProceed(req'[r].recipient, req'[r].txHash))
       /\ (req[r].pc = "e2eSend" /\ req'[r].status = 200)
          => /\ Len(grants') = Len(grants) + 1
             /\ grantors' = TrackGrantor(grantors, toLowerCase(req[r].tx.from),
                                         req[r].fundingAmount)]_vars

\* the amounts a mock request can carry: the parsed request amounts and the
\* default 0.01
MockAmounts ==
  {parseETH(a).val : a \in {b \in AmountInputs : b # <<>> /\ parseETH(b).ok}}
    \cup {parseEther(<<"0", ".", "0", "1">>).val}

\* the senders a mock request can carry: the request's grantor or the
\* placeholder
MockSenders ==
  {toLowerCase(g) : g \in {h \in GrantorInputs : IsString(h)}} \cup {"0x1111"}

\* C13: a mock POST /grants request never calls the chain provider: it is
\* never waiting on getTransaction, getTransactionReceipt or sendTransaction
\* and has no result of them; its record's gross amount and grantor come from
\* the request or the defaults and its distributionTxHash is the placeholder.
C13_MockNeverCallsProvider ==
  /\ \A r \in Requests :
       req[r].mock =>
         /\ req[r].endpoint = "grants" /\ req[r].pc \in {"done", "unhandled"}
         /\ req[r].tx = NoTx /\ req[r].receipt = "-"
         /\ ~req[r].sendCalled /\ ~req[r].sendOk
  /\ \A i \in 1..Len(grants) :
       grants[i].mock =>
         /\ grants[i].distributionTxHash = <<"0xmock", grants[i].id>>
         /\ grants[i].grossAmount \in MockAmounts
         /\ grants[i].grantor \in MockSenders

\* C13 witness: a mock record funded by a hash the chain holds no transaction
\* to the treasury for
C13_Witness ==
  \E i \in 1..Len(grants) :
    /\ grants[i].mock
    /\ req[grants[i].id].mock /\ req[grants[i].id].status = 201
    /\ ~SentToTreasury(ChainTx(grants[i].fundingTxHash))

\* five minutes in milliseconds
FiveMinutes == 300000

\* the cache is populated and younger than five minutes
CacheUnderTTL == whitelistCache.present /\ now - whitelistCacheTime < FiveMinutes

\* C14: a gated request that arrives while the cache is populated and younger
\* than five minutes is answered from the cache without a call to the
\* whitelist source; the source is called only when there is no cache or its
\* age has reached five minutes; the cache and its time change only when a
\* fetch succeeds, which replaces the set and sets the time to the time the
\* refresh began.
C14_CacheWithinTTL ==
  [][/\ \A r \in Requests :
          /\ (req[r].pc = "idle" /\ req'[r].endpoint = "grants" /\ req'[r].pc # "done")
             => /\ CacheUnderTTL
                     => /\ req'[r].pc = "gateResume" /\ ~req'[r].fetchCalled
                        /\ req'[r].wl = whitelistCache.set
                /\ ~CacheUnderTTL
                     => req'[r].pc = "fetching" /\ req'[r].fetchCalled
          /\ (~req[r].fetchCalled /\ req'[r].fetchCalled) => ~CacheUnderTTL
     /\ (whitelistCache' # whitelistCache \/ whitelistCacheTime' # whitelistCacheTime)
          => \E r \in Requests :
               /\ req[r].pc = "fetching" /\ req'[r].pc = "gateResume"
               /\ whitelistCache'.present
               /\ whitelistCache'.set = {toLowerCase(a) : a \in WhitelistData}
               /\ whitelistCacheTime' = req[r].fetchNow
               /\ req'[r].wl = whitelistCache'.set]_vars

\* C14 witness: a request answered from a cache of positive age, no fetch made
C14_Witness ==
  \E r \in Requests :
    /\ req[r].pc = "gateResume" /\ ~req[r].fetchCalled
    /\ whitelistCache.present /\ req[r].wl = whitelistCache.set
    /\ 0 < now - whitelistCacheTime

C16_RecordsImmutableStatsMonotone ==
  [][/\ Len(grants') >= Len(grants)
     /\ \A i \in 1..Len(grants) : grants'[i] = grants[i]
     /\ \A a \in DOMAIN grantors :
          /\ a \in DOMAIN grantors'
          /\ grantors'[a].totalGrants >= grantors[a].totalGrants
          /\ grantors'[a].totalAmount >= grantors[a].totalAmount]_vars

\* ------------------------------------------------------------------------
\* C17: every POST /grants request that has run to its end has been given
\* one client response, 201 or an error status (400, 403, 500); none is left
\* with a rejected handler and no response.
C17_EveryRequestAnswered ==
  \A r \in Requests :
    req[r].endpoint = "grants" =>
      /\ req[r].pc # "unhandled"
      /\ req[r].pc = "done" => req[r].status \in {201, 400, 403, 500}

\* ------------------------------------------------------------------------
\* C18: the step that ends a POST /grants request which passed the gate and
\* carries a txHash and a recipient that is no address answers 400 "Invalid
\* recipient address", whatever the ledger holds for that txHash, with no
\* provider call made and the ledger and the grantor stats unchanged.
C18_MalformedRecipientRejected ==
  [][\A r \in Requests :
       (/\ req[r].pc \notin {"done", "unhandled"}
        /\ req'[r].pc \in {"done", "unhandled"}
        /\ req'[r].endpoint = "grants"
        /\ req'[r].passedGate
        /\ req'[r].txHash # Absent
        /\ req'[r].recipient # Absent
        /\ ~isAddress(req'[r].recipient))
       => /\ req'[r].pc = "done"
          /\ req'[r].status = 400
          /\ req'[r].error = "Invalid recipient address"
          /\ req'[r].tx = NoTx
          /\ ~req'[r].sendCalled
          /\ grants' = grants
          /\ grantors' = grantors]_vars

\* a malformed recipient is rejected as such although the ledger holds a
\* record for the request's txHash: validation came before the duplicate check
C18_Witness ==
  \E r \in Requests :
    /\ req[r].pc = "done" /\ req[r].endpoint = "grants" /\ req[r].passedGate
    /\ IsString(req[r].txHash)
    /\ req[r].recipient # Absent /\ ~isAddress(req[r].recipient)
    /\ req[r].error = "Invalid recipient address"
    /\ FindByFundingTx(grants, req[r].txHash) # 0
    /\ RecordsBy(r) = {}

\* ------------------------------------------------------------------------
\* GET /grants
\* ------------------------------------------------------------------------
\* parseInt on a string of the query: an optional sign, then the leading
\* digits; NaN when there is none
RECURSIVE LeadingDigits(_)
LeadingDigits(s) ==
  IF s = <<>> \/ s[1] \notin Digits THEN <<>>
  ELSE <<s[1]>> \o LeadingDigits(Tail(s))

parseInt(s) ==
  LET neg == s # <<>> /\ s[1] = "-"
      d == LeadingDigits(IF neg THEN Tail(s) ELSE s)
  IN IF d = <<>> THEN [nan |-> TRUE, val |-> 0]
     ELSE [nan |-> FALSE, val |-> IF neg THEN 0 - DigitsToNat(d) ELSE DigitsToNat(d)]

\* Array.prototype.slice(0, end): NaN counts as 0, a negative end counts from
\* the array's end
Slice(s, end) ==
  LET e == IF end.nan THEN 0
           ELSE IF end.val < 0 THEN (IF Len(s) + end.val < 0 THEN 0 ELSE Len(s) + end.val)
           ELSE IF end.val > Len(s) THEN Len(s) ELSE end.val
  IN SubSeq(s, 1, e)

\* filter(g => g.recipient === recipient.toLowerCase()), and the same on grantor
RECURSIVE Filter(_, _, _)
Filter(s, field, value) ==
  IF s = <<>> THEN <<>>
  ELSE IF s[1][field] = toLowerCase(value) THEN <<s[1]>> \o Filter(Tail(s), field, value)
  ELSE Filter(Tail(s), field, value)

\* the comparator placing the oldest record first
SortedInsert_Ascending(s, g) ==
  LET k == Cardinality({i \in 1..Len(s) : s[i].createdAt <= g.createdAt})
  IN SubSeq(s, 1, k) \o <<g>> \o SubSeq(s, k + 1, Len(s))

\* the place (b.createdAt - a.createdAt) gives g in s, a sequence already in
\* order: after every record that is not older (the sort is stable)
SortedInsert(s, g) ==
  LET k == Cardinality({i \in 1..Len(s) : s[i].createdAt >= g.createdAt})
  IN SubSeq(s, 1, k) \o <<g>> \o SubSeq(s, k + 1, Len(s))

\* results.sort((a, b) => b.createdAt - a.createdAt)
RECURSIVE SortByCreatedAt(_)
SortByCreatedAt(s) ==
  IF s = <<>> THEN <<>>
  ELSE SortedInsert(SortByCreatedAt(SubSeq(s, 1, Len(s) - 1)), s[Len(s)])

\* the handler of GET /grants: the `grants` array of its response. An absent
\* or empty query parameter is falsy and skips its step.
ListGrants(recipient, grantor, limit) ==
  LET all == grants
      byRecipient == IF recipient # Absent THEN Filter(all, "recipient", recipient) ELSE all
      byGrantor == IF grantor # Absent THEN Filter(byRecipient, "grantor", grantor)
                   ELSE byRecipient
      sorted == SortByCreatedAt(byGrantor)
  IN IF limit # <<>> THEN Slice(sorted, parseInt(limit)) ELSE sorted

RecipientQueries == {Absent, "0xR1"}
GrantorQueries == {Absent, "0xG2"}
LimitQueries == {<<>>, <<"0">>, <<"1">>, <<"2">>, <<"x">>}

\* the stored records a query's filters select
Matching(recipient, grantor) ==
  {i \in 1..Len(grants) :
     /\ recipient # Absent => toLowerCase(grants[i].recipient) = toLowerCase(recipient)
     /\ grantor # Absent => toLowerCase(grants[i].grantor) = toLowerCase(grantor)}

\* C19: GET /grants without limit returns exactly the stored records whose
\* recipient and grantor equal the given filter values up to letter case, each
\* once, newest first (strictly so when their createdAt values differ); with
\* limit=n, n a non-negative integer, it returns the first n of that sequence.
C19_ListFilteredSortedLimited ==
  \A recipient \in RecipientQueries, grantor \in GrantorQueries :
    LET full == ListGrants(recipient, grantor, <<>>)
        M == Matching(recipient, grantor)
    IN /\ Len(full) = Cardinality(M)
       /\ \A i \in M : \E k \in 1..Len(full) : full[k] = grants[i]
       /\ \A k, l \in 1..Len(full) :
            k < l => /\ full[k].createdAt >= full[l].createdAt
                     /\ full[k].createdAt # full[l].createdAt
                          => full[k].createdAt > full[l].createdAt
       /\ \A limit \in LimitQueries :
            (limit # <<>> /\ LeadingDigits(limit) = limit) =>
              LET n == DigitsToNat(limit)
                  res == ListGrants(recipient, grantor, limit)
              IN /\ Len(res) = (IF n < Len(full) THEN n ELSE Len(full))
                 /\ \A k \in 1..Len(res) : res[k] = full[k]

\* two records made at different times for one recipient: the listing for
\* that recipient, asked in upper case with limit=1, is the newer record
C19_Witness ==
  /\ Len(grants) = 2
  /\ grants[1].createdAt < grants[2].createdAt
  /\ grants[1].recipient = "0xr1" /\ grants[2].recipient = "0xr1"
  /\ ListGrants("0xR1", Absent, <<>>) = <<grants[2], grants[1]>>
  /\ ListGrants("0xR1", Absent, <<"1">>) = <<grants[2]>>

\* ------------------------------------------------------------------------
\* a mock POST /grants request past the gate that carries a txHash
MockGrants(r) ==
  /\ req[r].endpoint = "grants" /\ req[r].mock /\ req[r].passedGate
  /\ req[r].txHash # Absent

\* C20: a mock POST /grants request never waits between its duplicate check
\* and its insertion (past the gate it is never suspended), so of the mock
\* requests with one fundingTxHash, however their handling overlaps, at most
\* one is answered 201 and at most one mock record is stored for the hash; and
\* the step that ends such a request with a valid recipient while the ledger
\* holds a record for its hash answers 400 "Transaction already used for
\* grant" with that record's id and stores nothing.
C20_MockCheckAndInsertAtomic ==
  [][/\ \A r \in Requests :
          req'[r].mock => req'[r].pc \notin {"getTx", "getReceipt", "send"}
     /\ \A r1, r2 \in Requests :
          (/\ r1 # r2 /\ MockGrants(r1)' /\ MockGrants(r2)'
           /\ toLowerCase(req'[r1].txHash) = toLowerCase(req'[r2].txHash))
          => /\ ~(req'[r1].status = 201 /\ req'[r2].status = 201)
             /\ Cardinality({i \in 1..Len(grants') :
                               /\ grants'[i].mock
                               /\ toLowerCase(grants'[i].fundingTxHash)
                                    = toLowerCase(req'[r1].txHash)}) <= 1
     /\ \A r \in Requests :
          (/\ req[r].pc = "gateResume" /\ req'[r].pc \in {"done", "unhandled"}
           /\ MockGrants(r)'
           /\ isAddress(req'[r].recipient)
           /\ RecordsOf(req'[r].txHash) # {})
          => /\ req'[r].pc = "done" /\ req'[r].status = 400
             /\ req'[r].error = "Transaction already used for grant"
             /\ req'[r].grantId \in {grants[i].id : i \in RecordsOf(req'[r].txHash)}
             /\ grants' = grants /\ grantors' = grantors]_vars

\* ------------------------------------------------------------------------
\* GET /stats totals
\* ------------------------------------------------------------------------
\* allGrants.reduce((sum, g) => sum + BigInt(g[field]), 0n)
RECURSIVE Reduce(_, _)
Reduce(s, field) ==
  IF s = <<>> THEN 0 ELSE Reduce(SubSeq(s, 1, Len(s) - 1), field) + s[Len(s)][field]

\* totalGrants: allGrants.length
StatsTotalGrants == Len(grants)

\* totalGranted and totalFees, in wei, as handed to formatETH
StatsTotalGranted == Reduce(grants, "netAmount")
StatsTotalFees == Reduce(grants, "fee")

\* the grantor's stats entry, zero when there is none
GrantorStats(gm, a) ==
  IF a \in DOMAIN gm THEN gm[a] ELSE [totalGrants |-> 0, totalAmount |-> 0]

C22_CacheTimeNeverBackwards ==
  [][whitelistCacheTime' >= whitelistCacheTime]_vars

TypeOK ==
  /\ \A r \in Requests : req[r].pc \in {"idle", "fetching", "gateResume", "getTx",
        "getReceipt", "send", "e2eGetTx", "e2eGetReceipt", "e2eSend", "done", "unhandled"}
  /\ Len(grants) <= MaxReq

====
